---- MODULE Spec2Model ----
(***************************************************************************)
(* Model of run_pipeline.py: iqr_winsorize, clean_dataset and main.        *)
(*                                                                         *)
(* Numbers are exact fixed-point integers: a raw input number x is stored  *)
(* as x * Scale, so that the quartile interpolation (quarters), the        *)
(* multiplier k (halves) and the median (halves) are computed without      *)
(* rounding, also when iqr_winsorize is applied twice.  float64 rounding   *)
(* is not modelled.  A cell is <<>> when missing (NaN) and <<v>> when it   *)
(* holds the number v.                                                     *)
(***************************************************************************)
EXTENDS Integers, Sequences, FiniteSets, TLC

VARIABLES
    series, orig, k2, calls,          \* iqr_winsorize: column, its input, 2*k, applications
    raw, df, pc, log,                 \* clean_dataset: input frame, working frame, stage, printed lines
    rawFile, mainPc, dirs, df_raw, df_clean, stats_before, stats_after, written, console   \* main

wvars == <<series, orig, k2, calls>>
cvars == <<raw, df, pc, log>>
mvars == <<rawFile, mainPc, dirs, df_raw, df_clean, stats_before, stats_after, written, console>>
vars == <<series, orig, k2, calls, raw, df, pc, log,
          rawFile, mainPc, dirs, df_raw, df_clean, stats_before, stats_after, written, console>>

----------------------------------------------------------------------------
(* Bounds of the checked instances *)

MaxLen == 5       \* longest column given to iqr_winsorize
MaxK2 == 3        \* largest multiplier, in halves: k ranges over 0, 1/2, ..., MaxK2/2
MaxRows == 3      \* most rows of a dataset given to clean_dataset
MaxFileRows == 1  \* most rows of the raw CSV file read by main

Scale == 8 * 8

NaN == <<>>
Num(x) == <<x * Scale>>
IsNa(c) == c = <<>>
NotNa(c) == c # <<>>

----------------------------------------------------------------------------
(* pandas helpers *)

Min2(a, b) == IF a <= b THEN a ELSE b
Max2(a, b) == IF a >= b THEN a ELSE b

\* Series.dropna(): the non-missing numbers of a column, in row order
RECURSIVE DropNa(_)
DropNa(s) ==
    IF s = <<>> THEN <<>>
    ELSE IF IsNa(Head(s)) THEN DropNa(Tail(s))
         ELSE <<Head(s)[1]>> \o DropNa(Tail(s))

RECURSIVE InsertSorted(_, _)
InsertSorted(x, s) ==
    IF s = <<>> THEN <<x>>
    ELSE IF x <= Head(s) THEN <<x>> \o s
         ELSE <<Head(s)>> \o InsertSorted(x, Tail(s))

\* the ascending sort the quantile and median estimators work on
RECURSIVE SortAsc(_)
SortAsc(s) == IF s = <<>> THEN <<>> ELSE InsertSorted(Head(s), SortAsc(Tail(s)))

\* the quantile with interpolation="midpoint" in place of "linear"
Quantile_midpoint(s, num) ==
    LET v == SortAsc(DropNa(s))
        n == Len(v)
        h == (n - 1) * num
        lo == h \div 4
    IN  IF n = 0 THEN NaN
        ELSE <<(v[lo + 1] + v[Min2(lo + 2, n)]) \div 2>>

\* Series.quantile(num/4), linear interpolation, missing entries skipped;
\* NaN for a column without numbers
Quantile(s, num) ==
    LET v == SortAsc(DropNa(s))
        n == Len(v)
        h == (n - 1) * num
        lo == h \div 4
        r == h % 4
    IN  IF n = 0 THEN NaN
        ELSE IF r = 0 THEN <<v[lo + 1]>>
        ELSE <<v[lo + 1] + (r * (v[lo + 2] - v[lo + 1])) \div 4>>

\* the median taken as the lower of the two middle numbers
Median_lowerMiddle(s) ==
    LET v == SortAsc(DropNa(s))
        n == Len(v)
    IN  IF n = 0 THEN NaN ELSE <<v[(n + 1) \div 2]>>

\* Series.median(), missing entries skipped; NaN for a column without numbers
Median(s) ==
    LET v == SortAsc(DropNa(s))
        n == Len(v)
    IN  IF n = 0 THEN NaN
        ELSE IF n % 2 = 1 THEN <<v[(n + 1) \div 2]>>
        ELSE <<(v[n \div 2] + v[n \div 2 + 1]) \div 2>>

\* Series.clip(lower, upper) on one cell: a missing cell stays missing
ClipCell(c, lower, upper) ==
    IF IsNa(c) THEN c ELSE <<Min2(Max2(c[1], lower), upper)>>

----------------------------------------------------------------------------
(* iqr_winsorize(series, k), k = kk / 2 *)

\* the bounds with the signs of k*IQR exchanged
iqr_winsorize_swapped(s, kk) ==
    LET q1 == Quantile(s, 1)
        q3 == Quantile(s, 3)
    IN  IF IsNa(q1) THEN s
        ELSE LET iqr == q3[1] - q1[1]
                 lower == q1[1] + (kk * iqr) \div 2
                 upper == q3[1] - (kk * iqr) \div 2
             IN  [i \in 1..Len(s) |-> ClipCell(s[i], lower, upper)]

iqr_winsorize(s, kk) ==
    LET q1 == Quantile(s, 1)
        q3 == Quantile(s, 3)
    IN  IF IsNa(q1) THEN s     \* no number in the column: NaN bounds clip nothing
        ELSE LET iqr == q3[1] - q1[1]
                 lower == q1[1] - (kk * iqr) \div 2
                 upper == q3[1] + (kk * iqr) \div 2
             IN  [i \in 1..Len(s) |-> ClipCell(s[i], lower, upper)]

----------------------------------------------------------------------------
(* Data frames: ordered column names, row labels, and one column of cells   *)
(* per name.                                                                *)

Idle == "idle"

HasCol(d, c) == c \in DOMAIN d.data
NRows(d) == Len(d.index)

\* positions of the TRUE entries of a boolean mask, ascending
RECURSIVE MaskPositions(_, _)
MaskPositions(mask, i) ==
    IF i > Len(mask) THEN <<>>
    ELSE IF mask[i] THEN <<i>> \o MaskPositions(mask, i + 1)
         ELSE MaskPositions(mask, i + 1)

\* the first rows instead of the masked rows
SelectRows_misaligned(d, mask) ==
    LET pos == MaskPositions(mask, 1)
    IN  [columns |-> d.columns,
         index   |-> [j \in 1..Len(pos) |-> d.index[pos[j]]],
         data    |-> [c \in DOMAIN d.data |->
                        [j \in 1..Len(pos) |-> d.data[c][j]]]]

\* df[mask]: the rows where the mask is TRUE, in their order, labels kept
SelectRows(d, mask) ==
    LET pos == MaskPositions(mask, 1)
    IN  [columns |-> d.columns,
         index   |-> [j \in 1..Len(pos) |-> d.index[pos[j]]],
         data    |-> [c \in DOMAIN d.data |->
                        [j \in 1..Len(pos) |-> d.data[c][pos[j]]]]]

\* df[col] = s
SetCol(d, c, s) == [d EXCEPT !.data[c] = s]

\* Series.isna().sum() / boolean mask .sum()
CountNa(s) == Cardinality({i \in 1..Len(s) : IsNa(s[i])})
CountTrue(mask) == Cardinality({i \in 1..Len(mask) : mask[i]})

\* Series.fillna(value): a NaN fill value leaves the missing cells missing
FillNa(s, value) == [i \in 1..Len(s) |-> IF IsNa(s[i]) THEN value ELSE s[i]]

\* one printed line
Line(level, event, col, count, median, remaining) ==
    [level |-> level, event |-> event, col |-> col,
     count |-> count, median |-> median, remaining |-> remaining]

----------------------------------------------------------------------------
(* clean_dataset *)

cols_with_outliers == <<"taille", "poids", "revenu_estime_mois", "montant_pret">>
cols_to_impute == <<"historique_credits", "score_credit", "loyer_mensuel">>

\* the filtered frame is computed and not assigned back
BusinessRuleFilter_unassigned(d, lg) ==
    IF HasCol(d, "loyer_mensuel")
    THEN LET loyer == d.data["loyer_mensuel"]
             nb_impossible == CountTrue([i \in 1..Len(loyer) |->
                                           NotNa(loyer[i]) /\ loyer[i][1] < 0])
         IN  [df  |-> d,
              log |-> IF nb_impossible > 0
                      THEN Append(lg, Line("INFO", "removed", "loyer_mensuel",
                                           nb_impossible, NaN, 0))
                      ELSE lg]
    ELSE [df |-> d, log |-> lg]

\* the filter without its isna() alternative: rows with a missing rent go too
BusinessRuleFilter_dropsMissing(d, lg) ==
    IF HasCol(d, "loyer_mensuel")
    THEN LET loyer == d.data["loyer_mensuel"]
             nb_impossible == CountTrue([i \in 1..Len(loyer) |->
                                           NotNa(loyer[i]) /\ loyer[i][1] < 0])
             keep == [i \in 1..Len(loyer) |-> NotNa(loyer[i]) /\ loyer[i][1] >= 0]
         IN  [df  |-> SelectRows(d, keep),
              log |-> IF nb_impossible > 0
                      THEN Append(lg, Line("INFO", "removed", "loyer_mensuel",
                                           nb_impossible, NaN, 0))
                      ELSE lg]
    ELSE [df |-> d, log |-> lg]

\* 1. business rule: rows with a negative rent are removed
BusinessRuleFilter(d, lg) ==
    IF HasCol(d, "loyer_mensuel")
    THEN LET loyer == d.data["loyer_mensuel"]
             mask_impossible == [i \in 1..Len(loyer) |->
                                   NotNa(loyer[i]) /\ loyer[i][1] < 0]
             nb_impossible == CountTrue(mask_impossible)
             keep == [i \in 1..Len(loyer) |->
                        IsNa(loyer[i]) \/ loyer[i][1] >= 0]
         IN  [df  |-> SelectRows(d, keep),
              log |-> IF nb_impossible > 0
                      THEN Append(lg, Line("INFO", "removed", "loyer_mensuel",
                                           nb_impossible, NaN, 0))
                      ELSE lg]
    ELSE [df |-> d, log |-> lg]

\* 2. the winsorisation loop over the rest of the list cols
RECURSIVE WinsorizeColumns(_, _, _)
WinsorizeColumns(d, lg, cols) ==
    IF cols = <<>> THEN [df |-> d, log |-> lg]
    ELSE LET col == Head(cols)
         IN  IF HasCol(d, col)
             THEN WinsorizeColumns(SetCol(d, col, iqr_winsorize(d.data[col], 3)),
                                   Append(lg, Line("INFO", "winsorised", col, 0, NaN, 0)),
                                   Tail(cols))
             ELSE WinsorizeColumns(d,
                                   Append(lg, Line("WARN", "skip_winsorisation", col, 0, NaN, 0)),
                                   Tail(cols))

\* the line printed with the remaining count in place of the imputed count,
\* and printed whatever the count
ImputeColumn_logsRemaining(d, lg, col) ==
    LET median_value == Median(d.data[col])
        filled == FillNa(d.data[col], median_value)
        nb_nan_after == CountNa(filled)
    IN  [df  |-> SetCol(d, col, filled),
         log |-> Append(lg, Line("INFO", "imputed", col,
                                 nb_nan_after, median_value, nb_nan_after))]

\* 3. the body of the imputation loop for one present column
ImputeColumn(d, lg, col) ==
    LET nb_nan_before == CountNa(d.data[col])
        median_value == Median(d.data[col])
        filled == FillNa(d.data[col], median_value)
        nb_nan_after == CountNa(filled)
    IN  IF nb_nan_before > 0
        THEN [df  |-> SetCol(d, col, filled),
              log |-> Append(lg, Line("INFO", "imputed", col,
                                      nb_nan_before, median_value, nb_nan_after))]
        ELSE [df |-> d, log |-> lg]

\* the loop left at the first absent column
RECURSIVE ImputeColumns_stopAtAbsent(_, _, _)
ImputeColumns_stopAtAbsent(d, lg, cols) ==
    IF cols = <<>> THEN [df |-> d, log |-> lg]
    ELSE LET col == Head(cols)
         IN  IF HasCol(d, col)
             THEN LET r == ImputeColumn(d, lg, col)
                  IN  ImputeColumns_stopAtAbsent(r.df, r.log, Tail(cols))
             ELSE [df  |-> d,
                   log |-> Append(lg, Line("WARN", "skip_imputation", col, 0, NaN, 0))]

\* 3. the imputation loop over the rest of the list cols
RECURSIVE ImputeColumns(_, _, _)
ImputeColumns(d, lg, cols) ==
    IF cols = <<>> THEN [df |-> d, log |-> lg]
    ELSE LET col == Head(cols)
         IN  IF HasCol(d, col)
             THEN LET r == ImputeColumn(d, lg, col)
                  IN  ImputeColumns(r.df, r.log, Tail(cols))
             ELSE ImputeColumns(d,
                                Append(lg, Line("WARN", "skip_imputation", col, 0, NaN, 0)),
                                Tail(cols))

\* the whole function: the returned frame and the lines it printed
clean_dataset(d) ==
    LET s1 == BusinessRuleFilter(d, <<>>)
        s2 == WinsorizeColumns(s1.df, s1.log, cols_with_outliers)
    IN  ImputeColumns(s2.df, s2.log, cols_to_impute)

----------------------------------------------------------------------------
(* Input datasets of the checked instances *)

LoyerCells == {NaN, Num(-1), Num(0), Num(1)}
OtherCells == {NaN, Num(0), Num(1)}

\* a dataset holds loyer_mensuel or not, and at most one of these beside it
OtherColumns == {"age", "taille", "score_credit"}
ColumnLists ==
    {<<>>, <<"loyer_mensuel">>}
    \cup {<<c>> : c \in OtherColumns}
    \cup {<<c, "loyer_mensuel">> : c \in OtherColumns}

SeqRange(s) == {s[i] : i \in 1..Len(s)}

Frame(cols, n, d) == [columns |-> cols, index |-> [i \in 1..n |-> i - 1], data |-> d]

\* the choices of the column beside loyer_mensuel and of loyer_mensuel itself
OtherColumn(cols, n) ==
    IF SeqRange(cols) \ {"loyer_mensuel"} = {} THEN {<<>>} ELSE [1..n -> OtherCells]
LoyerColumn(cols, n) ==
    IF "loyer_mensuel" \in SeqRange(cols) THEN [1..n -> LoyerCells] ELSE {<<>>}

InputFrame(cols, n, a, b) ==
    Frame(cols, n, [c \in SeqRange(cols) |-> IF c = "loyer_mensuel" THEN b ELSE a])

\* the documented imputation example: [10, 20, missing, 40]
ExampleImpute ==
    Frame(<<"score_credit">>, 4,
          [c \in {"score_credit"} |-> <<Num(10), Num(20), NaN, Num(40)>>])

\* every policy column and one other column, one row with a negative rent,
\* outliers in the winsorised columns
ExampleFull ==
    Frame(<<"age", "taille", "poids", "revenu_estime_mois", "montant_pret",
            "historique_credits", "score_credit", "loyer_mensuel">>, 5,
          [c \in {"age", "taille", "poids", "revenu_estime_mois", "montant_pret",
                  "historique_credits", "score_credit", "loyer_mensuel"} |->
            CASE c = "age"                -> <<Num(30), NaN, Num(41), Num(25), Num(52)>>
              [] c = "taille"             -> <<Num(1), Num(2), Num(3), Num(4), Num(100)>>
              [] c = "poids"              -> <<Num(0), Num(0), Num(9), Num(0), Num(4)>>
              [] c = "revenu_estime_mois" -> <<NaN, Num(2), Num(2), Num(2), Num(50)>>
              [] c = "montant_pret"       -> <<Num(-40), Num(1), Num(7), Num(2), Num(3)>>
              [] c = "historique_credits" -> <<NaN, NaN, Num(3), NaN, NaN>>
              [] c = "score_credit"       -> <<NaN, Num(10), Num(90), Num(20), Num(40)>>
              [] c = "loyer_mensuel"      -> <<Num(5), NaN, Num(-1), Num(0), Num(3)>>])

Examples == {ExampleImpute, ExampleFull}


----------------------------------------------------------------------------
(* Specification Spec: clean_dataset, stage by stage *)

CleanIdle ==
    raw = Idle /\ df = Idle /\ pc = Idle /\ log = <<>>

WinsorIdle ==
    series = Idle /\ orig = Idle /\ k2 = 0 /\ calls = 0

MainIdle ==
    /\ rawFile = Idle /\ mainPc = Idle /\ dirs = {} /\ df_raw = Idle /\ df_clean = Idle
    /\ stats_before = Idle /\ stats_after = Idle /\ written = {} /\ console = <<>>

\* df = df.copy()
Init ==
    /\ \/ raw \in Examples
       \/ \E n \in 0..MaxRows, cols \in ColumnLists :
            \E a \in OtherColumn(cols, n), b \in LoyerColumn(cols, n) :
                raw = InputFrame(cols, n, a, b)
    /\ df = raw
    /\ pc = "stage1"
    /\ log = <<>>
    /\ WinsorIdle
    /\ MainIdle

Stage1 ==
    /\ pc = "stage1"
    /\ LET r == BusinessRuleFilter(df, log)
       IN  df' = r.df /\ log' = r.log
    /\ pc' = "stage2"
    /\ UNCHANGED raw
    /\ UNCHANGED wvars
    /\ UNCHANGED mvars

Stage2 ==
    /\ pc = "stage2"
    /\ LET r == WinsorizeColumns(df, log, cols_with_outliers)
       IN  df' = r.df /\ log' = r.log
    /\ pc' = "stage3"
    /\ UNCHANGED raw
    /\ UNCHANGED wvars
    /\ UNCHANGED mvars

Stage3 ==
    /\ pc = "stage3"
    /\ LET r == ImputeColumns(df, log, cols_to_impute)
       IN  df' = r.df /\ log' = r.log
    /\ pc' = "done"
    /\ UNCHANGED raw
    /\ UNCHANGED wvars
    /\ UNCHANGED mvars

Next == Stage1 \/ Stage2 \/ Stage3

Spec == Init /\ [][Next]_vars

----------------------------------------------------------------------------
(* Specification SpecW: iqr_winsorize applied once and twice to a column *)

WCells == {NaN, Num(0), Num(1), Num(4)}

\* the column of the documented example, [1, 2, 3, 4, 100]
ExampleSeries == <<Num(1), Num(2), Num(3), Num(4), Num(100)>>

\* nine numbers and a missing entry: both quartiles are order statistics
ExampleNine ==
    <<Num(0), Num(1), NaN, Num(1), Num(2), Num(3), Num(4), Num(5), Num(6), Num(100)>>

WInputs == UNION {[1..n -> WCells] : n \in 0..MaxLen} \cup {ExampleSeries, ExampleNine}

InitW ==
    /\ orig \in WInputs
    /\ series = orig
    /\ k2 \in 0..MaxK2
    /\ calls = 0
    /\ CleanIdle
    /\ MainIdle

Winsorize ==
    /\ calls < 2
    /\ series' = iqr_winsorize(series, k2)
    /\ calls' = calls + 1
    /\ UNCHANGED <<orig, k2>>
    /\ UNCHANGED cvars
    /\ UNCHANGED mvars

NextW == Winsorize

SpecW == InitW /\ [][NextW]_vars

----------------------------------------------------------------------------
(* Specification SpecMain: main, one step per statement group *)

\* the raw CSV on disk: <<>> when absent, <<frame>> when present
NoFile == <<>>

raw_path == "data/raw/fichier-de-donnees-numeriques.csv"
clean_path == "data/processed/fichier-de-donnees-numeriques-clean.csv"
stats_before_path == "reports/stats_avant_nettoyage.csv"
stats_after_path == "reports/stats_apres_nettoyage.csv"
OutputFiles == {clean_path, stats_before_path, stats_after_path}

Info(event) == Line("INFO", event, "", 0, NaN, 0)

\* df.describe().T with missing_pct, reduced to what determines it per column:
\* the count of numbers and the count of missing cells
Describe(d) ==
    [c \in DOMAIN d.data |->
        [count |-> Len(d.data[c]) - CountNa(d.data[c]), missing |-> CountNa(d.data[c])]]

InitMain ==
    /\ \/ rawFile = NoFile
       \/ \E f \in Examples : rawFile = <<f>>
       \/ \E n \in 0..MaxFileRows, cols \in ColumnLists :
            \E a \in OtherColumn(cols, n), b \in LoyerColumn(cols, n) :
                rawFile = <<InputFrame(cols, n, a, b)>>
    /\ mainPc = "start"
    /\ dirs = {}
    /\ df_raw = Idle /\ df_clean = Idle
    /\ stats_before = Idle /\ stats_after = Idle
    /\ written = {}
    /\ console = <<>>
    /\ WinsorIdle
    /\ CleanIdle

\* os.makedirs(..., exist_ok=True), three times
MakeDirs ==
    /\ mainPc = "start"
    /\ dirs' = {"data/raw", "data/processed", "reports"}
    /\ mainPc' = "check"
    /\ UNCHANGED <<rawFile, df_raw, df_clean, stats_before, stats_after, written, console>>
    /\ UNCHANGED wvars
    /\ UNCHANGED cvars

\* the existence check left out
CheckRawFile_skipped ==
    /\ mainPc = "check"
    /\ mainPc' = "load"
    /\ UNCHANGED <<rawFile, dirs, df_raw, df_clean, stats_before, stats_after, written, console>>
    /\ UNCHANGED wvars
    /\ UNCHANGED cvars

\* if not os.path.exists(raw_path): raise FileNotFoundError
CheckRawFile ==
    /\ mainPc = "check"
    /\ mainPc' = IF rawFile = NoFile THEN "raised" ELSE "load"
    /\ UNCHANGED <<rawFile, dirs, df_raw, df_clean, stats_before, stats_after, written, console>>
    /\ UNCHANGED wvars
    /\ UNCHANGED cvars

\* print, pd.read_csv(raw_path), print; read_csv itself raises on a missing file
LoadRaw ==
    /\ mainPc = "load"
    /\ IF rawFile = NoFile
       THEN /\ mainPc' = "raised"
            /\ console' = Append(console, Info("loading"))
            /\ UNCHANGED df_raw
       ELSE /\ mainPc' = "stats_before"
            /\ console' = console \o <<Info("loading"), Info("raw_shape")>>
            /\ df_raw' = rawFile[1]
    /\ UNCHANGED <<rawFile, dirs, df_clean, stats_before, stats_after, written>>
    /\ UNCHANGED wvars
    /\ UNCHANGED cvars

StatsBefore ==
    /\ mainPc = "stats_before"
    /\ stats_before' = Describe(df_raw)
    /\ mainPc' = "clean"
    /\ UNCHANGED <<rawFile, dirs, df_raw, df_clean, stats_after, written, console>>
    /\ UNCHANGED wvars
    /\ UNCHANGED cvars

\* df_clean = clean_dataset(df_raw), print
Clean ==
    /\ mainPc = "clean"
    /\ LET r == clean_dataset(df_raw)
       IN  /\ df_clean' = r.df
           /\ console' = console \o r.log \o <<Info("clean_shape")>>
    /\ mainPc' = "stats_after"
    /\ UNCHANGED <<rawFile, dirs, df_raw, stats_before, stats_after, written>>
    /\ UNCHANGED wvars
    /\ UNCHANGED cvars

StatsAfter ==
    /\ mainPc = "stats_after"
    /\ stats_after' = Describe(df_clean)
    /\ mainPc' = "export_clean"
    /\ UNCHANGED <<rawFile, dirs, df_raw, df_clean, stats_before, written, console>>
    /\ UNCHANGED wvars
    /\ UNCHANGED cvars

\* df_clean.to_csv(clean_path, index=False), print
ExportClean ==
    /\ mainPc = "export_clean"
    /\ written' = written \cup {clean_path}
    /\ console' = Append(console, Info("clean_saved"))
    /\ mainPc' = "export_stats_before"
    /\ UNCHANGED <<rawFile, dirs, df_raw, df_clean, stats_before, stats_after>>
    /\ UNCHANGED wvars
    /\ UNCHANGED cvars

\* stats_before.to_csv(stats_before_path)
ExportStatsBefore ==
    /\ mainPc = "export_stats_before"
    /\ written' = written \cup {stats_before_path}
    /\ mainPc' = "export_stats_after"
    /\ UNCHANGED <<rawFile, dirs, df_raw, df_clean, stats_before, stats_after, console>>
    /\ UNCHANGED wvars
    /\ UNCHANGED cvars

\* stats_after.to_csv(stats_after_path), the three closing prints
ExportStatsAfter ==
    /\ mainPc = "export_stats_after"
    /\ written' = written \cup {stats_after_path}
    /\ console' = console \o <<Info("stats_before_saved"), Info("stats_after_saved"),
                               Info("completed")>>
    /\ mainPc' = "done"
    /\ UNCHANGED <<rawFile, dirs, df_raw, df_clean, stats_before, stats_after>>
    /\ UNCHANGED wvars
    /\ UNCHANGED cvars

NextMain ==
    \/ MakeDirs
    \/ CheckRawFile
    \/ LoadRaw
    \/ StatsBefore
    \/ Clean
    \/ StatsAfter
    \/ ExportClean
    \/ ExportStatsBefore
    \/ ExportStatsAfter

SpecMain == InitMain /\ [][NextMain]_vars

----------------------------------------------------------------------------
(* Reference definitions for the properties: order statistics by counting,  *)
(* quartiles and medians kept as integer multiples (no division).           *)

Present(s) == {i \in 1..Len(s) : s[i] # <<>>}
NPresent(s) == Cardinality(Present(s))

\* the j-th smallest number of the column
OrderStat(s, j) ==
    CHOOSE x \in {s[i][1] : i \in Present(s)} :
        /\ Cardinality({i \in Present(s) : s[i][1] < x}) < j
        /\ Cardinality({i \in Present(s) : s[i][1] <= x}) >= j

\* 4 times the (num/4)-quantile of the numbers of a column that has some
Quartile4(s, num) ==
    LET h == (NPresent(s) - 1) * num
        lo == h \div 4
        r == h % 4
    IN  IF r = 0 THEN 4 * OrderStat(s, lo + 1)
        ELSE (4 - r) * OrderStat(s, lo + 1) + r * OrderStat(s, lo + 2)

\* 8 times the clipping bounds Q1 - k*IQR and Q3 + k*IQR, k = kk / 2
Lower8(s, kk) == 2 * Quartile4(s, 1) - kk * (Quartile4(s, 3) - Quartile4(s, 1))
Upper8(s, kk) == 2 * Quartile4(s, 3) + kk * (Quartile4(s, 3) - Quartile4(s, 1))

\* twice the median of the numbers of a column that has some
Median2(s) ==
    LET n == NPresent(s)
    IN  IF n % 2 = 1 THEN 2 * OrderStat(s, (n + 1) \div 2)
        ELSE OrderStat(s, n \div 2) + OrderStat(s, n \div 2 + 1)

----------------------------------------------------------------------------
(* Properties of iqr_winsorize, under SpecW *)

\* C6: iqr_winsorize returns a column of the same length in which every
\* missing entry stays missing and every number v becomes
\* max(lower, min(upper, v)), with lower = Q1 - k*IQR and upper = Q3 + k*IQR
\* taken from the linear-interpolation quartiles of the numbers of the input;
\* [1, 2, 3, 4, 100] with k = 1.5 has Q1 = 2, Q3 = 4, lower = -1, upper = 7 and
\* becomes [1, 2, 3, 4, 7].
C6_BoundingCorrect ==
    calls = 1 =>
        /\ Len(series) = Len(orig)
        /\ \A i \in 1..Len(orig) : IsNa(orig[i]) <=> IsNa(series[i])
        /\ NPresent(series) = NPresent(orig)
        /\ \A i \in Present(orig) :
              8 * series[i][1] =
                  Max2(Lower8(orig, k2), Min2(Upper8(orig, k2), 8 * orig[i][1]))
        /\ (orig = ExampleSeries /\ k2 = 3) =>
              /\ Quantile(orig, 1) = Num(2)
              /\ Quantile(orig, 3) = Num(4)
              /\ Lower8(orig, k2) = 8 * Num(-1)[1]
              /\ Upper8(orig, k2) = 8 * Num(7)[1]
              /\ series = <<Num(1), Num(2), Num(3), Num(4), Num(7)>>

C6_Witness ==
    /\ calls = 1
    /\ orig = ExampleSeries
    /\ k2 = 3
    /\ series[5] = Num(7)

\* C4 as stated: a second application of iqr_winsorize with the same k,
\* recomputing the quartiles from the clipped column, changes no entry.
C4_IdempotentAlways ==
    calls = 2 => series = iqr_winsorize(orig, k2)

\* C4 amended: the second application changes no entry when the column has no
\* number or when the count n of its numbers has n mod 4 = 1, so that both
\* quartiles are order statistics, which the first clipping cannot move.
C4_IdempotentOnOrderStatistics ==
    (calls = 2 /\ (NPresent(orig) = 0 \/ NPresent(orig) % 4 = 1)) =>
        series = iqr_winsorize(orig, k2)

C4_Witness ==
    /\ calls = 2
    /\ orig = ExampleNine
    /\ k2 = 3
    /\ series[10] = Num(11)
    /\ series = iqr_winsorize(orig, k2)

----------------------------------------------------------------------------
(* Properties of clean_dataset, under Spec *)

Loyer == "loyer_mensuel"
PolicyColumns == SeqRange(cols_with_outliers) \cup SeqRange(cols_to_impute)

\* the raw cell of column c in the row that is now row j of df
RawCell(c, j) == raw.data[c][df.index[j] + 1]
\* the raw column c restricted to the rows of df
RawSurviving(c) == [j \in 1..NRows(df) |-> RawCell(c, j)]
\* the raw rows with a present, strictly negative rent
NegativeRows ==
    IF HasCol(raw, Loyer)
    THEN {i \in 1..NRows(raw) : raw.data[Loyer][i] # <<>> /\ raw.data[Loyer][i][1] < 0}
    ELSE {}
LinesOf(event, col) == {i \in 1..Len(log) : log[i].event = event /\ log[i].col = col}

\* C1: in the returned dataset every loyer_mensuel value is missing or >= 0,
\* the values filled in by the median imputation included.
C1_BusinessRule ==
    (pc = "done" /\ HasCol(df, Loyer)) =>
        \A j \in 1..NRows(df) :
            IsNa(df.data[Loyer][j]) \/ df.data[Loyer][j][1] >= 0

C1_Witness ==
    /\ pc = "done"
    /\ HasCol(raw, Loyer)
    /\ NegativeRows # {}
    /\ \E j \in 1..NRows(df) : IsNa(RawCell(Loyer, j)) /\ NotNa(df.data[Loyer][j])

\* C2: from Stage 1 on, the dataset has exactly the input rows minus those with
\* a present, strictly negative loyer_mensuel (none when the column is absent):
\* rows with a missing rent are kept and stages 2 and 3 change no row count.
C2_RowCount ==
    pc # "stage1" =>
        /\ NRows(df) <= NRows(raw)
        /\ NRows(raw) - NRows(df) = Cardinality(NegativeRows)
        /\ \A c \in DOMAIN df.data : Len(df.data[c]) = NRows(df)
        /\ HasCol(raw, Loyer) =>
              \A i \in 1..NRows(raw) :
                  IsNa(raw.data[Loyer][i]) => \E j \in 1..NRows(df) : df.index[j] = i - 1

C2_Witness ==
    /\ pc = "done"
    /\ NegativeRows # {}
    /\ NRows(df) = NRows(raw) - Cardinality(NegativeRows)
    /\ \E i \in 1..NRows(raw) : IsNa(raw.data[Loyer][i])

\* C3 as stated: after clean_dataset no present imputation column has a missing
\* entry, whatever the input.
C3_ImputationComplete ==
    pc = "done" =>
        \A c \in SeqRange(cols_to_impute) :
            HasCol(df, c) => CountNa(df.data[c]) = 0

\* C5: the column names are unchanged, the surviving rows keep their relative
\* order, and in every column outside the two policy lists each surviving row
\* holds exactly its raw input value.
C5_PassThrough ==
    pc = "done" =>
        /\ df.columns = raw.columns
        /\ DOMAIN df.data = DOMAIN raw.data
        /\ \A j \in 1..NRows(df) : df.index[j] \in 0..(NRows(raw) - 1)
        /\ \A i, j \in 1..NRows(df) : i < j => df.index[i] < df.index[j]
        /\ \A c \in DOMAIN raw.data \ PolicyColumns :
              \A j \in 1..NRows(df) : df.data[c][j] = RawCell(c, j)

C5_Witness ==
    /\ pc = "done"
    /\ HasCol(raw, "age")
    /\ NegativeRows # {}
    /\ NRows(df) >= 2
    /\ \E i, j \in 1..NRows(df) : df.data["age"][i] # df.data["age"][j]
    /\ \A j \in 1..NRows(df) : df.data["age"][j] = RawCell("age", j)

\* the dataset d without its column p
DropColumn(d, p) ==
    [columns |-> SelectSeq(d.columns, LAMBDA c : c # p),
     index   |-> d.index,
     data    |-> [c \in DOMAIN d.data \ {p} |-> d.data[c]]]

\* the cell of column c in the row labelled l of frame d
CellAt(d, c, l) == d.data[c][CHOOSE j \in 1..NRows(d) : d.index[j] = l]
Labels(d) == {d.index[j] : j \in 1..NRows(d)}

\* without its column p the dataset is cleaned to the same values, in every
\* other column and every row of both results
SameWithout(p) ==
    LET other == clean_dataset(DropColumn(raw, p)).df
    IN  /\ DOMAIN other.data = DOMAIN df.data \ {p}
        /\ Labels(df) \subseteq Labels(other)
        /\ \A c \in DOMAIN other.data : \A l \in Labels(df) :
              CellAt(other, c, l) = CellAt(df, c, l)

\* the stage of an absent policy column p is skipped with its notice
SkippedWithout(p) ==
    LET lg == clean_dataset(DropColumn(raw, p)).log
    IN  /\ p \in SeqRange(cols_with_outliers) =>
              \E i \in 1..Len(lg) : lg[i] = Line("WARN", "skip_winsorisation", p, 0, NaN, 0)
        /\ p \in SeqRange(cols_to_impute) =>
              \E i \in 1..Len(lg) : lg[i] = Line("WARN", "skip_imputation", p, 0, NaN, 0)

\* C7 as stated: removing any one policy column from the input leaves every
\* other column of the result as it is, on the same rows.
C7_MissingColumnAlways ==
    pc = "done" =>
        \A p \in PolicyColumns \cap DOMAIN raw.data : SameWithout(p)

\* C7 amended: removing one policy column p from the input skips the stage of p
\* and leaves every other column of the result as it is, on the same rows,
\* unless p is loyer_mensuel and the input has a row with a negative rent
\* (those rows are then no longer removed, and the quartiles and medians of the
\* other columns are taken over more rows).
C7_MissingColumnTolerated ==
    pc = "done" =>
        \A p \in PolicyColumns \cap DOMAIN raw.data :
            /\ SkippedWithout(p)
            /\ NRows(clean_dataset(DropColumn(raw, p)).df) =
                  IF p = Loyer THEN NRows(raw) ELSE NRows(df)
            /\ (p # Loyer \/ NegativeRows = {}) => SameWithout(p)

C7_Witness ==
    /\ pc = "done"
    /\ raw = ExampleFull
    /\ SameWithout("historique_credits")
    /\ SameWithout("taille")
    /\ ~SameWithout(Loyer)

\* the missing entries of column c among the rows that survive Stage 1
MissingSurviving(c) == {j \in 1..NRows(df) : IsNa(RawCell(c, j))}

C10_MedianImputation ==
    pc = "done" =>
        /\ \A c \in SeqRange(cols_to_impute) \cap DOMAIN raw.data :
              \A j \in 1..NRows(df) :
                  IF NotNa(RawCell(c, j)) THEN df.data[c][j] = RawCell(c, j)
                  ELSE IF NPresent(RawSurviving(c)) = 0 THEN IsNa(df.data[c][j])
                  ELSE /\ NotNa(df.data[c][j])
                       /\ 2 * df.data[c][j][1] = Median2(RawSurviving(c))
        /\ raw = ExampleImpute =>
              /\ df.data["score_credit"] = <<Num(10), Num(20), Num(20), Num(40)>>
              /\ \E i \in 1..Len(log) :
                    log[i] = Line("INFO", "imputed", "score_credit", 1, Num(20), 0)

C10_Witness ==
    /\ pc = "done"
    /\ raw = ExampleImpute
    /\ df.data["score_credit"][3] = Num(20)

C10_WitnessRemovedRow ==
    /\ pc = "done"
    /\ HasCol(raw, "score_credit")
    /\ NegativeRows # {}
    /\ \E i \in NegativeRows : NotNa(raw.data["score_credit"][i])
    /\ MissingSurviving("score_credit") # {}
    /\ NPresent(RawSurviving("score_credit")) >= 1

----------------------------------------------------------------------------
(* Property of main, under SpecMain *)

\* C9: when the raw CSV file does not exist, main raises at the existence check,
\* before it loads, cleans or exports anything: no output file is ever written,
\* nothing is printed, and the run ends there.
C9_NoOutputWithoutRawFile ==
    /\ rawFile = NoFile =>
          /\ written \cap OutputFiles = {}
          /\ console = <<>>
          /\ mainPc \in {"start", "check", "raised"}
    /\ mainPc = "raised" => (rawFile = NoFile /\ ~ENABLED NextMain)

C9_Witness ==
    /\ rawFile = NoFile
    /\ mainPc = "raised"
    /\ dirs # {}
    /\ written = {}

====
